---- MODULE Spec2Model ----
(***************************************************************************)
(* A model of the managerai pipeline: the orchestrator (run.js) starts the *)
(* three stage scripts for one company identifier, scrape.js (fetch),      *)
(* email.js (narrative) and updateNiceData.js (enrich), which read and     *)
(* update one row of the record store.  The upstream services (GitHub,    *)
(* the text-completion service, the record store) answer from a fixed      *)
(* fixture, except that any call may fail, up to MaxFaults times a stage.  *)
(***************************************************************************)
EXTENDS Integers, Sequences, FiniteSets, TLC

VARIABLES
    store,            \* the 'data' table: company id -> row
    argId,            \* process.argv[2] of the orchestrator and of every stage
    orchPc,           \* position of the orchestrator script
    pc,               \* position of the running stage script ("off": none)
    faults,           \* upstream failures injected into the running stage
    data,             \* the row a stage has read (data / company)
    orgName,          \* scrape.js: parsed organization
    topRepos,         \* scrape.js: selected repositories still to process
    contributors,     \* scrape.js: display names of the current repository
    commitSummaries,  \* scrape.js: listed commits whose detail is still to fetch
    commitsData,      \* scrape.js: aggregated commits of the current repository
    fetched,          \* the shas behind commitsData, in the same order
    results,          \* scrape.js: the sample sequence to persist
    dataSummary,      \* email.js: the digest put in the prompt
    email,            \* email.js: the generated message
    scrapedData,      \* updateNiceData.js: stored repositories still to enrich
    newRepo,          \* updateNiceData.js: the repository being enriched
    commitQ,          \* updateNiceData.js: commits still to summarize
    uniqueAuthors,    \* updateNiceData.js: authors still to process
    techList,         \* updateNiceData.js: technologies of the current author
    techFailed,       \* authors of newRepo whose technology lookup chain failed
    niceData,         \* updateNiceData.js: enriched repositories so far
    before,           \* the store as it was when the running stage started
    finished,         \* the stage that ended last ("none" before the first)
    outcome,          \* stage -> how its run ended
    env,              \* the credentials set in the environment of the processes
    invoker,          \* who starts the stages: "orchestrator" (run.js) or "shell"
    variant,          \* the fetch script installed: "js" (scrape.js) or "ts" (scrape.ts)
    later,            \* the shell is at its later command
    orchExit,         \* exit status of run.js (-1 while it has not ended)
    started,          \* the stage processes started so far, with their argument
    reqs,             \* the requests the running stage has issued, in order
    pending,          \* scrape.js: the contributors whose profile lookup is in flight
    profiles,         \* scrape.js: what the lookup callbacks have returned so far
    selIn, selN, selOut,    \* Repository Selector on its own: input, N, output
    digIn, digOut           \* Digest Summarizer on its own: input, outputs

vars == <<store, argId, orchPc, pc, faults, data, orgName, topRepos, contributors,
          commitSummaries, commitsData, fetched, results, dataSummary, email,
          scrapedData, newRepo, commitQ, uniqueAuthors, techList, techFailed,
          niceData, before, finished, outcome, env, invoker, variant, later, orchExit,
          started, reqs, pending, profiles, selIn, selN, selOut, digIn, digOut>>

pipeVars == <<store, argId, orchPc, pc, faults, data, orgName, topRepos, contributors,
              commitSummaries, commitsData, fetched, results, dataSummary, email,
              scrapedData, newRepo, commitQ, uniqueAuthors, techList, techFailed,
              niceData, before, finished, outcome, env, invoker, variant, later,
              orchExit, started, reqs, pending, profiles>>

selVars == <<selIn, selN, selOut>>

digVars == <<digIn, digOut>>

pureVars == <<selIn, selN, selOut, digIn, digOut>>

-----------------------------------------------------------------------------
(* Bounds of the model *)

MaxFaults == 1        \* upstream failures injected per stage run
MaxRepos == 2         \* repositories the organization listing returns
MaxCommits == 4       \* commits a commit listing returns
MaxSelLen == 5        \* length of the lists given to the selector on its own
MaxDigRepos == 2      \* repositories given to the summarizer on its own
MaxDigCommits == 5    \* commits per repository given to the summarizer on its own

(* Program constants *)

SampleSize == 1       \* sortedRepos.slice(0, 1)
AltSampleSize == 4    \* scrape.ts: sortedRepos.slice(0, 4)
MetricsWindow == 3    \* commitsData.slice(0, 3)
DigestCommits == 3    \* topRepo.commits.slice(0, 3)
ExcerptLen == 200     \* commit.diff.slice(0, 200)
CommitsPerPage == 10  \* listCommits per_page
ReposPerPage == 100   \* listForOrg per_page

-----------------------------------------------------------------------------
(* Generic helpers *)

Min(a, b) == IF a < b THEN a ELSE b

Take(s, n) == SubSeq(s, 1, Min(n, Len(s)))

Range(s) == {s[i] : i \in 1..Len(s)}

(* Array.prototype.join on texts *)
RECURSIVE Join(_, _)
Join(ss, sep) ==
    IF ss = <<>> THEN <<>>
    ELSE IF Len(ss) = 1 THEN ss[1]
    ELSE ss[1] \o sep \o Join(Tail(ss), sep)

(* The quotient cut to an integer instead of rounded *)
MathFloor(total, count) == total \div count

(* Math.round(total / count) for total >= 0, count > 0: halves round up *)
MathRound(total, count) == (2 * total + count) \div (2 * count)

(* The authors without the Set: every commit's author, repeats included *)
SetOrderKeepsRepeats(s) == s

(* new Set(seq) iterated: the distinct elements in order of first occurrence *)
RECURSIVE SetOrder(_)
SetOrder(s) ==
    IF s = <<>> THEN <<>>
    ELSE LET init == SetOrder(SubSeq(s, 1, Len(s) - 1))
             x == s[Len(s)]
         IN  IF x \in Range(init) THEN init ELSE Append(init, x)

-----------------------------------------------------------------------------
(* Texts whose characters the code counts are sequences of one-character  *)
(* strings.                                                                *)

FilePrefix ==
    <<"F", "i", "l", "e", ":", " ">>

NoPatchSuffix ==
    <<" ", "(", "n", "o", " ", "p", "a", "t", "c", "h", " ", "a", "v", "a",
      "i", "l", "a", "b", "l", "e", ")", "\n">>

NoFileChanges ==
    <<"N", "o", " ", "f", "i", "l", "e", " ", "c", "h", "a", "n", "g", "e",
      "s", " ", "f", "o", "u", "n", "d", " ", "f", "o", "r", " ", "t", "h",
      "i", "s", " ", "c", "o", "m", "m", "i", "t", ".">>

NL == <<"\n">>

(* The fixed strings of the scripts *)

NoRepositoryData == "No repository data available."

NoSummary == "No summary available."

SummaryNotAvailable == "Summary not available."

NoDiffAvailable == "No diff available."

NoMessageAvailable == "No message available."

Unknown == "Unknown"

-----------------------------------------------------------------------------
(* The upstream fixture: what the services hold.  Everything is a function *)
(* of a position or a sha, so the bounds above can grow.                   *)

Cyc(s, i) == s[((i - 1) % Len(s)) + 1]

RepoName(i) == Cyc(<<"alpha", "beta", "gamma", "delta", "epsilon", "zeta", "eta">>, i)

RepoStars(i) == Cyc(<<10, 50, 5, 50, 0>>, i)

(* One entry of the listForOrg response *)
UpstreamRepo(i) ==
    [name |-> RepoName(i), html_url |-> RepoName(i), stargazers_count |-> RepoStars(i)]

(* The organizations that exist upstream *)
KnownOrgs == {"org1"}

PatchText(n) ==
    [i \in 1..n |-> IF i % 9 = 0 THEN "\n" ELSE IF i % 2 = 0 THEN "+" ELSE "x"]

NoStats == [present |-> FALSE, additions |-> 0, deletions |-> 0, total |-> 0]

Stats(a, d) == [present |-> TRUE, additions |-> a, deletions |-> d, total |-> a + d]

File(fname, hasPatch, n) == [filename |-> fname, hasPatch |-> hasPatch, patch |-> PatchText(n)]

(* The getCommit response for a sha: author.login, commit.author.name ("" when *)
(* absent), commit.message, files and stats                                   *)
CommitDetail(sha) ==
    LET k == ((sha - 1) % 5) + 1 IN
    CASE k = 1 -> [login |-> "a", authorName |-> "Ann", message |-> "add login",
                   files |-> <<File(<<"a", ".", "j", "s">>, TRUE, 210)>>,
                   stats |-> Stats(10, 2)]
      [] k = 2 -> [login |-> "b", authorName |-> "", message |-> "fix ui",
                   files |-> <<File(<<"b", ".", "j", "s">>, TRUE, 12),
                               File(<<"c", ".", "p", "n", "g">>, FALSE, 0)>>,
                   stats |-> Stats(20, 4)]
      [] k = 3 -> [login |-> "a", authorName |-> "", message |-> "",
                   files |-> <<>>,
                   stats |-> NoStats]
      [] k = 4 -> [login |-> "", authorName |-> "c", message |-> "refactor",
                   files |-> <<File(<<"d", ".", "j", "s">>, TRUE, 189)>>,
                   stats |-> Stats(5, 1)]
      [] OTHER -> [login |-> "", authorName |-> "", message |-> "merge",
                   files |-> <<>>,
                   stats |-> Stats(0, 0)]

(* The contributor listing of a repository, ranked *)
ContributorLogins == <<"a", "b">>

(* users.getByUsername: the accounts that exist, and their name ("" when none) *)
KnownUsers == {"a", "b"}

ProfileName(login) == IF login = "a" THEN "Alice" ELSE ""

(* repos.listForUser: whether the user owns a repository *)
OwnsRepos(login) == login = "a"

(* The completion for the technology prompt, as its comma-separated fields *)
(* after trimming ("" for a field of white space only)                     *)
TechResponse(login) == IF OwnsRepos(login) THEN <<"TypeScript", "", "React">> ELSE <<"">>

(* The completions for a commit's diff and message, trimmed *)
DiffCompletion(diff) == IF diff = NoFileChanges THEN "" ELSE "Changed some files."

MessageCompletion(message) == IF message = "refactor" THEN "" ELSE "Improved the product."

(* The completion for the email prompt: any of these *)
EmailCompletions == {"", "Hello manager"}


-----------------------------------------------------------------------------
(* Values of the record store.  A JSON column is null, an array, or some   *)
(* other JSON value; a text column is null or a string.                    *)

JsonNull == [kind |-> "null", items |-> <<>>]

JsonOther == [kind |-> "other", items |-> <<>>]

JsonArray(items) == [kind |-> "array", items |-> items]

TextNull == [isNull |-> TRUE, text |-> ""]

Text(t) == [isNull |-> FALSE, text |-> t]

Undefined == [defined |-> FALSE, value |-> 0]

Number(n) == [defined |-> TRUE, value |-> n]

Url(parsable, path) == [parsable |-> parsable, path |-> path]

Row(website, scraped) ==
    [website |-> website, scraped_data |-> scraped, nice_data |-> JsonNull,
     email |-> TextNull]

NoRow == Row(Url(FALSE, <<>>), JsonNull)

-----------------------------------------------------------------------------
(* Repository Selector *)

(* An insertion that puts x before its equals: ties come out reversed *)
RECURSIVE InsertByStargazersUnstable(_, _)
InsertByStargazersUnstable(r, x) ==
    IF r = <<>> THEN <<x>>
    ELSE IF x.stargazers_count - Head(r).stargazers_count >= 0
         THEN <<x>> \o r
         ELSE <<Head(r)>> \o InsertByStargazersUnstable(Tail(r), x)

(* Array.prototype.sort((a, b) => b.stargazers_count - a.stargazers_count): *)
(* a stable sort, here by insertion: x goes before the first element that   *)
(* the comparator puts after it                                             *)
RECURSIVE InsertByStargazers(_, _)
InsertByStargazers(r, x) ==
    IF r = <<>> THEN <<x>>
    ELSE IF x.stargazers_count - Head(r).stargazers_count > 0
         THEN <<x>> \o r
         ELSE <<Head(r)>> \o InsertByStargazers(Tail(r), x)

RECURSIVE SortByStargazers(_)
SortByStargazers(repos) ==
    IF repos = <<>> THEN <<>>
    ELSE InsertByStargazers(SortByStargazers(SubSeq(repos, 1, Len(repos) - 1)),
                            repos[Len(repos)])

(* sortedRepos.slice(0, n) of the sorted listing *)
SelectTopRepos(repos, n) == Take(SortByStargazers(repos), n)

-----------------------------------------------------------------------------
(* Commit Aggregator *)

(* One file of a commit as it appears in the diff text *)
FileBlock(file) ==
    IF file.hasPatch /\ file.patch # <<>>
    THEN FilePrefix \o file.filename \o NL \o file.patch \o NL
    ELSE FilePrefix \o file.filename \o NoPatchSuffix

DiffText(files) ==
    IF Len(files) > 0
    THEN Join([i \in 1..Len(files) |-> FileBlock(files[i])], NL)
    ELSE NoFileChanges

CommitAuthor(detail) ==
    IF detail.login # "" THEN detail.login
    ELSE IF detail.authorName # "" THEN detail.authorName
    ELSE Unknown

(* const stats = commitDetails.stats || { additions: 0, deletions: 0, total: 0 } *)
StatsOrDefault(stats) == IF stats.present THEN stats ELSE Stats(0, 0)

(* The object pushed on commitsData for a fetched commit detail *)
CommitRecord(detail) ==
    [message |-> detail.message,
     author |-> CommitAuthor(detail),
     diff |-> DiffText(detail.files),
     stats |-> StatsOrDefault(detail.stats)]

(* scrape.ts pushes author and diff only: no message, no stats *)
CommitRecordTs(detail) ==
    [message |-> "",
     author |-> CommitAuthor(detail),
     diff |-> DiffText(detail.files),
     stats |-> NoStats]

-----------------------------------------------------------------------------
(* Metrics Computer *)

RECURSIVE SumAdditions(_)
SumAdditions(commits) ==
    IF commits = <<>> THEN 0
    ELSE Head(commits).stats.additions + SumAdditions(Tail(commits))

RECURSIVE SumDeletions(_)
SumDeletions(commits) ==
    IF commits = <<>> THEN 0
    ELSE Head(commits).stats.deletions + SumDeletions(Tail(commits))

HasStats(commit) == commit.stats.present

(* totalAdditions, totalDeletions and countStats over the first `window`   *)
(* commits, then the two rounded averages                                  *)
AverageChurn(commits, window) ==
    LET counted == SelectSeq(Take(commits, window), HasStats)
        countStats == Len(counted)
    IN  [additions |-> IF countStats > 0
                       THEN MathRound(SumAdditions(counted), countStats) ELSE 0,
         deletions |-> IF countStats > 0
                       THEN MathRound(SumDeletions(counted), countStats) ELSE 0,
         countStats |-> countStats]

(* repoData of scrape.js *)
RepoData(repo, contribs, commits) ==
    [name |-> repo.name,
     link |-> repo.html_url,
     stars |-> repo.stargazers_count,
     top50contributors |-> contribs,
     commits |-> commits,
     averageAdditions |-> Number(AverageChurn(commits, MetricsWindow).additions),
     averageDeletions |-> Number(AverageChurn(commits, MetricsWindow).deletions)]

(* repoData of scrape.ts: no averages *)
RepoDataTs(repo, contribs, commits) ==
    [name |-> repo.name,
     link |-> repo.html_url,
     stars |-> repo.stargazers_count,
     top50contributors |-> contribs,
     commits |-> commits,
     averageAdditions |-> Undefined,
     averageDeletions |-> Undefined]

-----------------------------------------------------------------------------
(* Digest Summarizer.  The digest is kept by its parts: the sentinel, or   *)
(* the block of the top repository, one entry per "Commit <index> by       *)
(* <author>" paragraph, and the "Average changes per commit" line.         *)

RECURSIVE InsertByStars(_, _)
InsertByStars(r, x) ==
    IF r = <<>> THEN <<x>>
    ELSE IF x.stars - Head(r).stars > 0
         THEN <<x>> \o r
         ELSE <<Head(r)>> \o InsertByStars(Tail(r), x)

(* scrapedData.sort((a, b) => b.stars - a.stars) *)
RECURSIVE SortByStars(_)
SortByStars(repos) ==
    IF repos = <<>> THEN <<>>
    ELSE InsertByStars(SortByStars(SubSeq(repos, 1, Len(repos) - 1)), repos[Len(repos)])

(* replace('\n', ' ') with a string pattern: only the first newline goes *)
DiffExcerptFirstNewlineOnly(diff) ==
    LET cut == Take(diff, ExcerptLen)
        first == IF \E i \in 1..Len(cut) : cut[i] = "\n"
                 THEN CHOOSE i \in 1..Len(cut) :
                         cut[i] = "\n" /\ \A j \in 1..(i - 1) : cut[j] # "\n"
                 ELSE 0
    IN  [i \in 1..Len(cut) |-> IF i = first THEN " " ELSE cut[i]]

(* commit.diff.slice(0, 200).replace(/\n/g, ' ') *)
DiffExcerpt(diff) ==
    LET cut == Take(diff, ExcerptLen)
    IN  [i \in 1..Len(cut) |-> IF cut[i] = "\n" THEN " " ELSE cut[i]]

CommitParagraphs(commits) ==
    LET commitsToInclude == Take(commits, DigestCommits)
    IN  [i \in 1..Len(commitsToInclude) |->
            [index |-> i,
             author |-> commitsToInclude[i].author,
             excerpt |-> DiffExcerpt(commitsToInclude[i].diff)]]

SentinelDigest ==
    [text |-> NoRepositoryData, name |-> "", stars |-> 0, link |-> "",
     commits |-> <<>>, hasAverage |-> FALSE, avgAdditions |-> 0, avgDeletions |-> 0]

(* summarizeScrapedData without its null and Array.isArray guards *)
SummarizeScrapedDataUnguarded(scraped) ==
    IF scraped.kind = "array" /\ Len(scraped.items) = 0 THEN SentinelDigest
    ELSE [text |-> "Top Repository:", name |-> "", stars |-> 0, link |-> "",
          commits |-> <<>>, hasAverage |-> FALSE, avgAdditions |-> 0, avgDeletions |-> 0]

(* summarizeScrapedData of email.js *)
SummarizeScrapedData(scraped) ==
    IF scraped.kind # "array" \/ Len(scraped.items) = 0 THEN SentinelDigest
    ELSE LET topRepo == SortByStars(scraped.items)[1]
             avg == topRepo.averageAdditions.defined /\ topRepo.averageDeletions.defined
         IN  [text |-> "Top Repository:",
              name |-> topRepo.name,
              stars |-> topRepo.stars,
              link |-> topRepo.link,
              commits |-> CommitParagraphs(topRepo.commits),
              hasAverage |-> avg,
              avgAdditions |-> IF avg THEN topRepo.averageAdditions.value ELSE 0,
              avgDeletions |-> IF avg THEN topRepo.averageDeletions.value ELSE 0]

(* summarizeScrapedData of scrape.js, which averages the included commits *)
SummarizeScrapedDataScrape(scraped) ==
    IF scraped.kind # "array" \/ Len(scraped.items) = 0 THEN SentinelDigest
    ELSE LET topRepo == SortByStars(scraped.items)[1]
             churn == AverageChurn(topRepo.commits, DigestCommits)
         IN  [text |-> "Top Repository:",
              name |-> topRepo.name,
              stars |-> topRepo.stars,
              link |-> topRepo.link,
              commits |-> CommitParagraphs(topRepo.commits),
              hasAverage |-> churn.countStats > 0,
              avgAdditions |-> churn.additions,
              avgDeletions |-> churn.deletions]

-----------------------------------------------------------------------------
(* Enrichment helpers *)

NonEmpty(t) == t # ""

(* content.trim().split(",").map(t => t.trim()).filter(Boolean) *)
ParseTechnologies(fields) == SelectSeq(fields, NonEmpty)

(* content.trim() || sentinel *)
OrSentinel(content, sentinel) == IF content # "" THEN content ELSE sentinel

CommitAuthors(commits) == [i \in 1..Len(commits) |-> commits[i].author]


-----------------------------------------------------------------------------
(* The pipeline: initial state *)

Stages == {"scrape", "email", "nice"}

NotRun == [status |-> "notrun", cause |-> "", updateIssued |-> FALSE, updateOk |-> FALSE,
           promptSubmitted |-> FALSE, exitCode |-> 0]

(* A main function whose catch blocks and early returns set a failure     *)
(* status: an aborted run, or one whose update failed, exits with 1        *)
EndedSignalsFailure(status, cause, issued, ok, prompted) ==
    [status |-> status, cause |-> cause, updateIssued |-> issued, updateOk |-> ok,
     promptSubmitted |-> prompted,
     exitCode |-> IF status = "aborted" \/ (issued /\ ~ok) THEN 1 ELSE 0]

(* How a run of main ends: every failure after startup is logged and main  *)
(* returns, so the process ends with status zero                           *)
Ended(status, cause, issued, ok, prompted) ==
    [status |-> status, cause |-> cause, updateIssued |-> issued, updateOk |-> ok,
     promptSubmitted |-> prompted, exitCode |-> 0]

(* process.exit(1) at the top or the bottom of a script *)
Exited ==
    [status |-> "exited", cause |-> "config", updateIssued |-> FALSE, updateOk |-> FALSE,
     promptSubmitted |-> FALSE, exitCode |-> 1]

NoDigest ==
    [text |-> "", name |-> "", stars |-> 0, link |-> "",
     commits |-> <<>>, hasAverage |-> FALSE, avgAdditions |-> 0, avgDeletions |-> 0]

NoRepo ==
    [name |-> "", link |-> "", stars |-> 0, top50contributors |-> <<>>, commits |-> <<>>,
     averageAdditions |-> Undefined, averageDeletions |-> Undefined, people |-> <<>>]

(* A scraped_data column written by an earlier run of scrape.js *)
StoredSample ==
    JsonArray(<<RepoData(UpstreamRepo(1), <<"Alice", "b">>,
                         <<CommitRecord(CommitDetail(1)), CommitRecord(CommitDetail(2))>>)>>)

(* The seed rows (insert.js): id, website; the pipeline columns are null,  *)
(* except that a row created elsewhere may hold a scraped_data that is no  *)
(* array, and that row 5 holds the sample of an earlier run.  Row 3 has an *)
(* empty path, row 6 a website that is no URL.  Identifier 4 has no row.   *)
SeedStores ==
    {[i \in {1, 2, 3, 5, 6} |->
        CASE i = 1 -> Row(Url(TRUE, <<"", "org1", "">>), JsonNull)
          [] i = 2 -> Row(Url(TRUE, <<"", "ghost">>), seed)
          [] i = 3 -> Row(Url(TRUE, <<"", "">>), JsonNull)
          [] i = 5 -> Row(Url(TRUE, <<"", "", "ghost", "x">>), StoredSample)
          [] OTHER -> Row(Url(FALSE, <<>>), JsonNull)] : seed \in {JsonNull, JsonOther}}

ArgIds == {1, 2, 3, 4, 5, 6}

(* process.argv[2] when no argument is given *)
NoArg == 0

(* The credentials the scripts read from the environment and check.        *)
(* GITHUB_TOKEN is read too, but every script goes on without it.          *)
Credentials == {"SUPABASE_URL", "SUPABASE_KEY", "OPENAI_API_KEY"}

(* The scripts check the Supabase pair only *)
RequiredCredentialsSupabaseOnly(script) == {"SUPABASE_URL", "SUPABASE_KEY"}

(* The credentials whose absence makes a script exit at its top *)
RequiredCredentials(script) ==
    IF script = "scrape.ts" THEN {"SUPABASE_URL", "SUPABASE_KEY"} ELSE Credentials

(* The environments: everything set, or one credential unset *)
EnvChoices == {Credentials} \cup {Credentials \ {c} : c \in Credentials}

(* The script behind a stage: scrape.js or its older variant scrape.ts *)
Script(prog) == IF prog = "scrape" /\ variant = "ts" THEN "scrape.ts" ELSE prog

(* The checks at the top (credentials) and the bottom (argument) of a script *)
ConfigFails(prog) ==
    \/ ~(RequiredCredentials(Script(prog)) \subseteq env)
    \/ argId = NoArg

(* One request to a service and how it ended: the operation, what it was   *)
(* for (repository, login, sha or position of a commit) and, for a         *)
(* listing, the number of entries returned                                 *)
Req(op, repo, login, sha, failed, n) ==
    [op |-> op, repo |-> repo, login |-> login, sha |-> sha, failed |-> failed, n |-> n]

StoreReq(op, failed) == Req(op, "", "", 0, failed, 0)

ScrapeLocalsReset ==
    /\ orgName' = ""
    /\ topRepos' = <<>>
    /\ contributors' = <<>>
    /\ pending' = {}
    /\ profiles' = <<>>
    /\ commitSummaries' = <<>>
    /\ commitsData' = <<>>
    /\ fetched' = <<>>
    /\ results' = <<>>

NiceLocalsReset ==
    /\ scrapedData' = <<>>
    /\ newRepo' = NoRepo
    /\ commitQ' = <<>>
    /\ uniqueAuthors' = <<>>
    /\ techList' = <<>>
    /\ techFailed' = {}
    /\ niceData' = <<>>

sLoc == <<orgName, topRepos, contributors, pending, profiles, commitSummaries, commitsData,
          fetched, results>>

eLoc == <<dataSummary, email>>

nLoc == <<scrapedData, newRepo, commitQ, uniqueAuthors, techList, techFailed, niceData>>

(* What no step of a stage changes: the environment, who invokes, which    *)
(* fetch script is installed, whether this is the shell's later command    *)
cfg == <<env, invoker, variant, later>>

(* What a step inside a stage leaves alone *)
ctl == <<argId, orchPc, orchExit, started, finished, outcome, before>>

PipeInit ==
    /\ store \in SeedStores
    /\ argId = NoArg
    /\ orchExit = -1
    /\ later = FALSE
    /\ started = <<>>
    /\ reqs = <<>>
    /\ pc = "off"
    /\ faults = 0
    /\ data = NoRow
    /\ orgName = ""
    /\ topRepos = <<>>
    /\ contributors = <<>>
    /\ pending = {}
    /\ profiles = <<>>
    /\ commitSummaries = <<>>
    /\ commitsData = <<>>
    /\ fetched = <<>>
    /\ results = <<>>
    /\ dataSummary = NoDigest
    /\ email = TextNull
    /\ scrapedData = <<>>
    /\ newRepo = NoRepo
    /\ commitQ = <<>>
    /\ uniqueAuthors = <<>>
    /\ techList = <<>>
    /\ techFailed = {}
    /\ niceData = <<>>
    /\ before = store
    /\ finished = "none"
    /\ outcome = [s \in Stages |-> NotRun]

(* The pipeline at rest, for the functions studied on their own *)
PipeIdle ==
    /\ PipeInit
    /\ store[2].scraped_data = JsonNull
    /\ env = Credentials
    /\ invoker = "orchestrator"
    /\ variant = "js"
    /\ orchPc = "init"

SelIdle ==
    /\ selIn = <<>>
    /\ selN = 0
    /\ selOut = [done |-> FALSE, repos |-> <<>>]

DigIdle ==
    /\ digIn = JsonNull
    /\ digOut = [done |-> FALSE, email |-> NoDigest, scrape |-> NoDigest]

(* run.js is started in some environment, scrape.js being the fetch script *)
Init ==
    /\ PipeInit
    /\ env \in EnvChoices
    /\ invoker = "orchestrator"
    /\ variant = "js"
    /\ orchPc = "init"
    /\ SelIdle /\ DigIdle

-----------------------------------------------------------------------------
(* The orchestrator (run.js) *)

(* The stage execSync starts after `prog` has exited with status zero *)
NextOrch(prog) ==
    CASE prog = "scrape" -> "email"
      [] prog = "email" -> "nice"
      [] OTHER -> "done"

(* An orchestrator that does not look at the exit status *)
OnExitIgnoresStatus(prog, code) == NextOrch(prog)

(* execSync throws on a non-zero exit status: the catch block exits with 1 *)
OnExit(prog, code) == IF code # 0 THEN "failed" ELSE NextOrch(prog)

(* Where the invoker stands once `prog` has exited with `code`: the shell  *)
(* goes on to its later command whatever the status                        *)
AfterExit(prog, code) ==
    IF invoker = "shell" THEN (IF later THEN "done" ELSE "second")
    ELSE OnExit(prog, code)

(* The exit status of run.js once it has ended: 1 from its catch block, 0  *)
(* after the last stage                                                    *)
OrchExitAfter(prog, code) ==
    IF invoker = "shell" THEN orchExit
    ELSE CASE OnExit(prog, code) = "failed" -> 1
           [] OnExit(prog, code) = "done" -> 0
           [] OTHER -> orchExit

(* run.js up to its first execSync: without an argument it exits with 1 *)
OrchStart ==
    /\ UNCHANGED pureVars
    /\ invoker = "orchestrator"
    /\ orchPc = "init"
    /\ \E id \in ArgIds \cup {NoArg} :
         /\ argId' = id
         /\ orchPc' = IF id = NoArg THEN "failed" ELSE "scrape"
         /\ orchExit' = IF id = NoArg THEN 1 ELSE orchExit
    /\ UNCHANGED <<store, pc, faults, data, sLoc, eLoc, nLoc, before, finished, outcome,
                   started, reqs, cfg>>

(* A stage script is started from the shell, with or without an argument;  *)
(* the shell's later command is a narrative or enrich run for another      *)
(* company                                                                 *)
DirectStart ==
    /\ UNCHANGED pureVars
    /\ invoker = "shell"
    /\ pc = "off"
    /\ orchPc \in {"first", "second"}
    /\ \E s \in Stages, id \in ArgIds \cup {NoArg} :
         /\ orchPc = "second" => (s # "scrape" /\ id # NoArg /\ id # started[1].id)
         /\ argId' = id
         /\ orchPc' = s
    /\ later' = (orchPc = "second")
    /\ UNCHANGED <<store, pc, faults, data, sLoc, eLoc, nLoc, before, finished, outcome,
                   started, reqs, orchExit, env, invoker, variant>>

(* A stage script returns from its main function: the process ends with    *)
(* status zero and the invoker goes on                                     *)
EndStage(prog, status, cause, issued, ok, prompted) ==
    /\ pc' = "off"
    /\ orchPc' = AfterExit(prog, Ended(status, cause, issued, ok, prompted).exitCode)
    /\ orchExit' = OrchExitAfter(prog, Ended(status, cause, issued, ok, prompted).exitCode)
    /\ finished' = prog
    /\ outcome' = [outcome EXCEPT ![prog] = Ended(status, cause, issued, ok, prompted)]
    /\ data' = NoRow
    /\ UNCHANGED argId

(* process.exit(1) before main is called *)
ExitStage(prog) ==
    /\ pc' = "off"
    /\ orchPc' = AfterExit(prog, Exited.exitCode)
    /\ orchExit' = OrchExitAfter(prog, Exited.exitCode)
    /\ finished' = prog
    /\ outcome' = [outcome EXCEPT ![prog] = Exited]
    /\ data' = NoRow
    /\ UNCHANGED argId

(* supabase.from('data').select('*').eq('id', id).single(): the row, or an  *)
(* error when there is none; `failed` is a failure of the store itself      *)
ReadFails(failed) == failed \/ argId \notin DOMAIN store

(* The process of stage `prog` starts; `requests` are those it issues in   *)
(* its first step                                                          *)
BeginStage(prog, failed, requests) ==
    /\ pc = "off"
    /\ before' = store
    /\ faults' = IF failed THEN 1 ELSE 0
    /\ started' = Append(started, [stage |-> prog, id |-> argId])
    /\ reqs' = requests

(* update(...) without .eq('id', id): every row gets the value *)
UpdateEveryRow(st, id, field, value) ==
    [i \in DOMAIN st |-> [st[i] EXCEPT ![field] = value]]

(* supabase.from('data').update({ field: value }).eq('id', id) *)
UpdateRow(st, id, field, value) == [st EXCEPT ![id][field] = value]

MayFail == {FALSE} \cup {f \in {TRUE} : MaxFaults > 0}

(* The step of a request that may fail: one more injected failure *)
Fault(failed) ==
    /\ failed => faults < MaxFaults
    /\ faults' = IF failed THEN faults + 1 ELSE faults

-----------------------------------------------------------------------------
(* scrape.js and scrape.ts: the fetch stage *)

(* url.pathname.split('/') without the filter, less the leading empty part *)
PathPartsUnfiltered(website) == Tail(website.path)

(* new URL(website); url.pathname.split('/').filter(Boolean) *)
PathParts(website) == SelectSeq(website.path, NonEmpty)

UrlParses(website) == website.parsable /\ Len(PathParts(website)) >= 1

(* The try block around the parsing: the organization, or the failure *)
ResolveOrg(website) ==
    IF UrlParses(website)
    THEN [ok |-> TRUE, org |-> PathParts(website)[1]]
    ELSE [ok |-> FALSE, org |-> ""]

(* The sample size of the installed fetch script *)
SampleSizeOf(v) == IF v = "ts" THEN AltSampleSize ELSE SampleSize

(* The script up to the parsed organization: the checks of the             *)
(* configuration, the read of the row, the parsing of its website          *)
ScrapeStart ==
    /\ UNCHANGED pureVars
    /\ orchPc = "scrape"
    /\ \/ /\ ConfigFails("scrape")
          /\ BeginStage("scrape", FALSE, <<>>)
          /\ ExitStage("scrape")
          /\ UNCHANGED orgName
       \/ /\ ~ConfigFails("scrape")
          /\ \E failed \in MayFail :
              /\ BeginStage("scrape", failed, <<StoreReq("select", ReadFails(failed))>>)
              /\ \/ /\ ReadFails(failed)
                    /\ EndStage("scrape", "aborted", "read", FALSE, FALSE, FALSE)
                    /\ UNCHANGED orgName
                 \/ /\ ~ReadFails(failed)
                    /\ ~ResolveOrg(store[argId].website).ok
                    /\ EndStage("scrape", "aborted", "url", FALSE, FALSE, FALSE)
                    /\ UNCHANGED orgName
                 \/ /\ ~ReadFails(failed)
                    /\ ResolveOrg(store[argId].website).ok
                    /\ data' = store[argId]
                    /\ orgName' = ResolveOrg(store[argId].website).org
                    /\ pc' = "s_listForOrg"
                    /\ UNCHANGED <<argId, orchPc, orchExit, finished, outcome>>
    /\ UNCHANGED <<store, topRepos, contributors, pending, profiles, commitSummaries,
                   commitsData, fetched, results, eLoc, nLoc, cfg>>

(* A listing failure that goes on with zero repositories and persists them *)
ListForOrgPersistsEmpty(cause) ==
    /\ EndStage("scrape", "completed", cause, TRUE, TRUE, FALSE)
    /\ ScrapeLocalsReset
    /\ store' = [store EXCEPT ![argId].scraped_data = JsonArray(<<>>)]

(* octokit.rest.repos.listForOrg throws: nothing around the call catches,  *)
(* so the outer catch of main logs it and main returns                     *)
ListForOrgThrows(cause) ==
    /\ EndStage("scrape", "aborted", cause, FALSE, FALSE, FALSE)
    /\ ScrapeLocalsReset
    /\ UNCHANGED store

(* The listing, the sort by stars and the selection of the top repositories *)
ScrapeListForOrg ==
    /\ UNCHANGED pureVars
    /\ pc = "s_listForOrg"
    /\ \/ /\ orgName \notin KnownOrgs
          /\ reqs' = Append(reqs, Req("listForOrg", orgName, "", 0, TRUE, 0))
          /\ ListForOrgThrows("orgNotFound")
          /\ UNCHANGED faults
       \/ /\ orgName \in KnownOrgs
          /\ Fault(TRUE)
          /\ reqs' = Append(reqs, Req("listForOrg", orgName, "", 0, TRUE, 0))
          /\ ListForOrgThrows("listing")
       \/ /\ orgName \in KnownOrgs
          /\ \E k \in 0..Min(MaxRepos, ReposPerPage) :
                LET repos == [i \in 1..k |-> UpstreamRepo(i)]
                    top == SelectTopRepos(repos, SampleSizeOf(variant))
                IN  /\ topRepos' = top
                    /\ reqs' = Append(reqs, Req("listForOrg", orgName, "", 0, FALSE, k))
                    /\ pc' = IF top = <<>> THEN "s_update" ELSE "s_listContributors"
          /\ results' = <<>>
          /\ UNCHANGED <<store, argId, orchPc, orchExit, faults, data, orgName, contributors,
                         pending, profiles, commitSummaries, commitsData, fetched, finished,
                         outcome>>
    /\ UNCHANGED <<before, started, eLoc, nLoc, cfg>>

(* The entry of one contributor: the profile's name, else the login; the   *)
(* login too when the profile lookup fails                                 *)
ContributorName(login, lookupFails) ==
    IF lookupFails \/ login \notin KnownUsers THEN login
    ELSE IF ProfileName(login) # "" THEN ProfileName(login) ELSE login

(* A lookup whose result is not yet there *)
Unsettled == [settled |-> FALSE, name |-> ""]

IsSettled(p) == p.settled

(* Results pushed as the lookups settle, the first to settle first *)
SettleInCompletionOrder(ps, i, name) ==
    LET done == SelectSeq(ps, IsSettled)
    IN  [j \in 1..Len(ps) |->
            IF j <= Len(done) THEN done[j]
            ELSE IF j = Len(done) + 1 THEN [settled |-> TRUE, name |-> name]
            ELSE Unsettled]

(* Promise.all: the value a callback returns goes to the place of its      *)
(* contributor in the listing                                              *)
Settle(ps, i, name) == [ps EXCEPT ![i] = [settled |-> TRUE, name |-> name]]

(* listContributors; scrape.ts keeps the logins, scrape.js starts one      *)
(* profile lookup a contributor, all in flight together                    *)
ScrapeListContributors ==
    /\ UNCHANGED pureVars
    /\ pc = "s_listContributors"
    /\ \E failed \in BOOLEAN :
         /\ Fault(failed)
         /\ reqs' = Append(reqs, Req("listContributors", Head(topRepos).name, "", 0, failed,
                                     IF failed THEN 0 ELSE Len(ContributorLogins)))
         /\ IF failed
            THEN /\ contributors' = <<>>
                 /\ pc' = "s_listCommits"
                 /\ UNCHANGED <<pending, profiles>>
            ELSE IF variant = "ts" \/ ContributorLogins = <<>>
            THEN /\ contributors' = ContributorLogins
                 /\ pc' = "s_listCommits"
                 /\ UNCHANGED <<pending, profiles>>
            ELSE /\ contributors' = <<>>
                 /\ pending' = 1..Len(ContributorLogins)
                 /\ profiles' = [i \in 1..Len(ContributorLogins) |-> Unsettled]
                 /\ pc' = "s_profiles"
    /\ UNCHANGED <<store, data, orgName, topRepos, commitSummaries, commitsData, fetched,
                   results, ctl, eLoc, nLoc, cfg>>

(* One of the lookups in flight settles, in any order: users.getByUsername *)
(* answers or fails; when the last has settled, Promise.all gives the      *)
(* array of the results                                                    *)
ScrapeProfile ==
    /\ UNCHANGED pureVars
    /\ pc = "s_profiles"
    /\ \E i \in pending :
       \E failed \in {f \in BOOLEAN : f => ContributorLogins[i] \in KnownUsers} :
         LET login == ContributorLogins[i]
             ps == Settle(profiles, i, ContributorName(login, failed))
         IN  /\ Fault(failed)
             /\ reqs' = Append(reqs, Req("getByUsername", Head(topRepos).name, login, 0,
                                         failed \/ login \notin KnownUsers, 0))
             /\ profiles' = ps
             /\ pending' = pending \ {i}
             /\ IF pending = {i}
                THEN /\ contributors' = [j \in 1..Len(ps) |-> ps[j].name]
                     /\ pc' = "s_listCommits"
                ELSE UNCHANGED <<contributors, pc>>
    /\ UNCHANGED <<store, data, orgName, topRepos, commitSummaries, commitsData, fetched,
                   results, ctl, eLoc, nLoc, cfg>>

(* A commit listing error that ends the loop over the repositories *)
AfterCommitListingErrorEndsLoop == "s_update"

(* The catch block around the commit listing logs the error: the script   *)
(* goes on to the averages and the push of this repository                 *)
AfterCommitListingError == "s_metrics"

(* listCommits: the shas of the most recent commits, or a failure that     *)
(* leaves commitsData empty                                                *)
ScrapeListCommits ==
    /\ UNCHANGED pureVars
    /\ pc = "s_listCommits"
    /\ commitsData' = <<>>
    /\ fetched' = <<>>
    /\ \/ /\ Fault(TRUE)
          /\ reqs' = Append(reqs, Req("listCommits", Head(topRepos).name, "", 0, TRUE, 0))
          /\ commitSummaries' = <<>>
          /\ pc' = AfterCommitListingError
       \/ /\ \E k \in 0..Min(MaxCommits, CommitsPerPage) :
                /\ commitSummaries' = [i \in 1..k |-> i]
                /\ reqs' = Append(reqs, Req("listCommits", Head(topRepos).name, "", 0,
                                            FALSE, k))
                /\ pc' = IF k = 0 THEN "s_metrics" ELSE "s_getCommit"
          /\ UNCHANGED faults
    /\ UNCHANGED <<store, data, orgName, topRepos, contributors, pending, profiles,
                   results, ctl, eLoc, nLoc, cfg>>

(* The record pushed on commitsData by the installed script *)
CommitRecordOf(v, detail) ==
    IF v = "ts" THEN CommitRecordTs(detail) ELSE CommitRecord(detail)

(* A commit pushed in front of the commits aggregated so far *)
PushCommitInFront(commits, record) == <<record>> \o commits

(* commitsData.push *)
PushCommit(commits, record) == Append(commits, record)

(* getCommit for the next listed sha: its record is pushed, or the failure *)
(* is logged and the commit skipped                                        *)
ScrapeGetCommit ==
    /\ UNCHANGED pureVars
    /\ pc = "s_getCommit"
    /\ \E failed \in BOOLEAN :
         /\ Fault(failed)
         /\ reqs' = Append(reqs, Req("getCommit", Head(topRepos).name, "",
                                     Head(commitSummaries), failed, 0))
         /\ IF failed
            THEN UNCHANGED <<commitsData, fetched>>
            ELSE /\ commitsData' = PushCommit(commitsData,
                                      CommitRecordOf(variant, CommitDetail(Head(commitSummaries))))
                 /\ fetched' = Append(fetched, Head(commitSummaries))
    /\ commitSummaries' = Tail(commitSummaries)
    /\ pc' = IF Tail(commitSummaries) = <<>> THEN "s_metrics" ELSE "s_getCommit"
    /\ UNCHANGED <<store, data, orgName, topRepos, contributors, pending, profiles,
                   results, ctl, eLoc, nLoc, cfg>>

(* The repoData object of the installed script *)
RepoDataOf(v, repo, names, commits) ==
    IF v = "ts" THEN RepoDataTs(repo, names, commits) ELSE RepoData(repo, names, commits)

(* The averages over the top 3 commits (scrape.js) and results.push(repoData) *)
ScrapeMetrics ==
    /\ UNCHANGED pureVars
    /\ pc = "s_metrics"
    /\ results' = Append(results, RepoDataOf(variant, Head(topRepos), contributors, commitsData))
    /\ topRepos' = Tail(topRepos)
    /\ pc' = IF Tail(topRepos) = <<>> THEN "s_update" ELSE "s_listContributors"
    /\ UNCHANGED <<store, faults, data, orgName, contributors, pending, profiles,
                   commitSummaries, commitsData, fetched, reqs, ctl, eLoc, nLoc, cfg>>

(* update({ scraped_data: results }).eq('id', id) *)
ScrapeUpdate ==
    /\ UNCHANGED pureVars
    /\ pc = "s_update"
    /\ \E failed \in BOOLEAN :
         /\ Fault(failed)
         /\ reqs' = Append(reqs, StoreReq("update", failed))
         /\ store' = IF failed THEN store
                     ELSE UpdateRow(store, argId, "scraped_data", JsonArray(results))
         /\ EndStage("scrape", "completed", "", TRUE, ~failed, FALSE)
    /\ ScrapeLocalsReset
    /\ UNCHANGED <<before, started, eLoc, nLoc, cfg>>


-----------------------------------------------------------------------------
(* email.js: the narrative stage *)

EmailStart ==
    /\ UNCHANGED pureVars
    /\ orchPc = "email"
    /\ \/ /\ ConfigFails("email")
          /\ BeginStage("email", FALSE, <<>>)
          /\ ExitStage("email")
       \/ /\ ~ConfigFails("email")
          /\ \E failed \in MayFail :
              /\ BeginStage("email", failed, <<StoreReq("select", ReadFails(failed))>>)
              /\ \/ /\ ReadFails(failed)
                    /\ EndStage("email", "aborted", "read", FALSE, FALSE, FALSE)
                 \/ /\ ~ReadFails(failed)
                    /\ data' = store[argId]
                    /\ pc' = "e_generate"
                    /\ UNCHANGED <<argId, orchPc, orchExit, finished, outcome>>
    /\ UNCHANGED <<store, sLoc, eLoc, nLoc, cfg>>

(* A generation failure replaced by a sentinel that is then stored *)
GenerateEmailSubstitutesSentinel ==
    /\ EndStage("email", "completed", "generation", TRUE, TRUE, TRUE)
    /\ email' = Text(NoSummary)
    /\ store' = [store EXCEPT ![argId].email = Text(NoSummary)]

(* openai.chat.completions.create throws inside generateEmail: neither     *)
(* generateEmail nor main catches it before the outer catch of main        *)
GenerateEmailThrows ==
    /\ EndStage("email", "aborted", "generation", FALSE, FALSE, TRUE)
    /\ email' = TextNull
    /\ UNCHANGED store

(* generateEmail: the digest of data.scraped_data goes into the prompt,    *)
(* the completion's content (or "") comes back                             *)
EmailGenerate ==
    /\ UNCHANGED pureVars
    /\ pc = "e_generate"
    /\ dataSummary' = SummarizeScrapedData(data.scraped_data)
    /\ \/ /\ Fault(TRUE)
          /\ reqs' = Append(reqs, Req("emailCompletion", "", "", 0, TRUE, 0))
          /\ GenerateEmailThrows
       \/ /\ \E content \in EmailCompletions : email' = Text(content)
          /\ reqs' = Append(reqs, Req("emailCompletion", "", "", 0, FALSE, 0))
          /\ pc' = "e_update"
          /\ UNCHANGED <<store, argId, orchPc, orchExit, faults, data, finished, outcome>>
    /\ UNCHANGED <<before, started, sLoc, nLoc, cfg>>

(* update({ email: email }).eq('id', id) *)
EmailUpdate ==
    /\ UNCHANGED pureVars
    /\ pc = "e_update"
    /\ \E failed \in BOOLEAN :
         /\ Fault(failed)
         /\ reqs' = Append(reqs, StoreReq("update", failed))
         /\ store' = IF failed THEN store ELSE UpdateRow(store, argId, "email", email)
         /\ EndStage("email", "completed", "", TRUE, ~failed, TRUE)
    /\ UNCHANGED <<before, started, sLoc, eLoc, nLoc, cfg>>

-----------------------------------------------------------------------------
(* updateNiceData.js: the enrich stage *)

NiceStart ==
    /\ UNCHANGED pureVars
    /\ orchPc = "nice"
    /\ \/ /\ ConfigFails("nice")
          /\ BeginStage("nice", FALSE, <<>>)
          /\ ExitStage("nice")
          /\ UNCHANGED scrapedData
       \/ /\ ~ConfigFails("nice")
          /\ \E failed \in MayFail :
              /\ BeginStage("nice", failed, <<StoreReq("select", ReadFails(failed))>>)
              /\ \/ /\ ReadFails(failed)
                    /\ EndStage("nice", "aborted", "read", FALSE, FALSE, FALSE)
                    /\ UNCHANGED scrapedData
                 \/ /\ ~ReadFails(failed)
                    /\ store[argId].scraped_data.kind # "array"
                    /\ EndStage("nice", "aborted", "noScrapedData", FALSE, FALSE, FALSE)
                    /\ UNCHANGED scrapedData
                 \/ /\ ~ReadFails(failed)
                    /\ store[argId].scraped_data.kind = "array"
                    /\ data' = store[argId]
                    /\ scrapedData' = store[argId].scraped_data.items
                    /\ pc' = IF store[argId].scraped_data.items = <<>>
                             THEN "n_update" ELSE "n_repo"
                    /\ UNCHANGED <<argId, orchPc, orchExit, finished, outcome>>
    /\ niceData' = <<>>
    /\ UNCHANGED <<store, sLoc, eLoc, newRepo, commitQ, uniqueAuthors, techList, techFailed,
                   cfg>>

(* The head of the repository loop: newRepo and the set of commit authors *)
NiceRepo ==
    /\ UNCHANGED pureVars
    /\ pc = "n_repo"
    /\ LET repo == Head(scrapedData)
       IN  /\ newRepo' = [name |-> repo.name, link |-> repo.link, stars |-> repo.stars,
                          top50contributors |-> repo.top50contributors,
                          commits |-> <<>>,
                          averageAdditions |-> repo.averageAdditions,
                          averageDeletions |-> repo.averageDeletions,
                          people |-> <<>>]
           /\ commitQ' = repo.commits
           /\ uniqueAuthors' = SetOrder(CommitAuthors(repo.commits))
           /\ pc' = IF repo.commits = <<>> THEN "n_push" ELSE "n_commit"
    /\ techFailed' = {}
    /\ techList' = <<>>
    /\ UNCHANGED <<store, faults, data, scrapedData, niceData, reqs, ctl, sLoc, eLoc, cfg>>

(* A failed diff summary reported with the sentinel of the message summary *)
SummarizeCommitDiffOtherSentinel(diff, callFails) ==
    IF callFails THEN NoSummary
    ELSE OrSentinel(DiffCompletion(diff), SummaryNotAvailable)

(* summarizeCommitDiff: the trimmed completion, or the sentinel when it is *)
(* empty or the call fails                                                 *)
SummarizeCommitDiff(diff, callFails) ==
    IF callFails THEN SummaryNotAvailable
    ELSE OrSentinel(DiffCompletion(diff), SummaryNotAvailable)

(* summarizeCommitMessage *)
SummarizeCommitMessage(message, callFails) ==
    IF callFails THEN NoSummary
    ELSE OrSentinel(MessageCompletion(message), NoSummary)

(* The entry pushed on newRepo.commits for a stored commit *)
NiceCommitEntry(commit, diffFails, messageFails) ==
    [message |-> commit.message,
     messageSummary |-> IF commit.message # ""
                        THEN SummarizeCommitMessage(commit.message, messageFails)
                        ELSE NoMessageAvailable,
     author |-> commit.author,
     summary |-> IF commit.diff # <<>>
                 THEN SummarizeCommitDiff(commit.diff, diffFails)
                 ELSE NoDiffAvailable,
     stats |-> commit.stats]

BoolToNat(b) == IF b THEN 1 ELSE 0

(* The completion requests of one turn of the commit loop: the diff's,     *)
(* then the message's, each only for a non-empty text                      *)
CommitSummaryReqs(repo, position, commit, diffFails, messageFails) ==
    (IF commit.diff # <<>>
     THEN <<Req("summarizeDiff", repo, "", position, diffFails, 0)>> ELSE <<>>)
    \o
    (IF commit.message # ""
     THEN <<Req("summarizeMessage", repo, "", position, messageFails, 0)>> ELSE <<>>)

(* One turn of the commit loop: the two summaries and the push *)
NiceCommit ==
    /\ UNCHANGED pureVars
    /\ pc = "n_commit"
    /\ LET commit == Head(commitQ)
       IN  \E diffFails \in {f \in BOOLEAN : f => commit.diff # <<>>},
              messageFails \in {f \in BOOLEAN : f => commit.message # ""} :
             /\ faults + BoolToNat(diffFails) + BoolToNat(messageFails) <= MaxFaults
             /\ faults' = faults + BoolToNat(diffFails) + BoolToNat(messageFails)
             /\ reqs' = reqs \o CommitSummaryReqs(newRepo.name, Len(newRepo.commits) + 1,
                                                  commit, diffFails, messageFails)
             /\ newRepo' = [newRepo EXCEPT !.commits =
                               Append(@, NiceCommitEntry(commit, diffFails, messageFails))]
    /\ commitQ' = Tail(commitQ)
    /\ pc' = IF Tail(commitQ) = <<>> THEN "n_tech" ELSE "n_commit"
    /\ UNCHANGED <<store, data, scrapedData, uniqueAuthors, techList, techFailed, niceData,
                   ctl, sLoc, eLoc, cfg>>

(* The calls getTechnologiesForContributor makes for an author, in order *)
TechCalls(author) ==
    IF OwnsRepos(author)
    THEN <<"getByUsername", "listForUser", "listLanguages", "techCompletion">>
    ELSE <<"getByUsername", "listForUser", "techCompletion">>

(* A chain that issues its failed call once more before giving up *)
TechReqsRetrying(repo, author, failedAt) ==
    LET calls == TechCalls(author)
        last == IF failedAt = 0 THEN Len(calls) ELSE failedAt
    IN  [i \in 1..last |-> Req(calls[i], repo, author, 0, i = failedAt, 0)]
        \o (IF failedAt = 0 THEN <<>>
            ELSE <<Req(calls[failedAt], repo, author, 0, TRUE, 0)>>)

(* The requests of the chain when its call number `failedAt` fails (0: none *)
(* fails): the calls up to that one                                         *)
TechReqs(repo, author, failedAt) ==
    LET calls == TechCalls(author)
        last == IF failedAt = 0 THEN Len(calls) ELSE failedAt
    IN  [i \in 1..last |-> Req(calls[i], repo, author, 0, i = failedAt, 0)]

(* getTechnologiesForContributor: the parsed completion, or [] when any    *)
(* call of the chain fails                                                 *)
TechnologiesFor(author, chainFails) ==
    IF chainFails \/ author \notin KnownUsers THEN <<>>
    ELSE ParseTechnologies(TechResponse(author))

NiceTech ==
    /\ UNCHANGED pureVars
    /\ pc = "n_tech"
    /\ LET author == Head(uniqueAuthors)
       IN  \/ /\ author \in KnownUsers
              /\ Fault(TRUE)
              /\ \E failedAt \in 1..Len(TechCalls(author)) :
                    reqs' = reqs \o TechReqs(newRepo.name, author, failedAt)
              /\ techList' = TechnologiesFor(author, TRUE)
              /\ techFailed' = techFailed \cup {author}
           \/ /\ author \notin KnownUsers
              /\ reqs' = reqs \o TechReqs(newRepo.name, author, 1)
              /\ techList' = TechnologiesFor(author, FALSE)
              /\ techFailed' = techFailed \cup {author}
              /\ UNCHANGED faults
           \/ /\ author \in KnownUsers
              /\ reqs' = reqs \o TechReqs(newRepo.name, author, 0)
              /\ techList' = TechnologiesFor(author, FALSE)
              /\ UNCHANGED <<faults, techFailed>>
    /\ pc' = "n_name"
    /\ UNCHANGED <<store, data, scrapedData, newRepo, commitQ, uniqueAuthors, niceData,
                   ctl, sLoc, eLoc, cfg>>

(* The entry pushed in the try block: name is the profile's name, else the *)
(* username                                                                *)
PersonEntry(author, technologies) ==
    [username |-> author,
     hasName |-> TRUE,
     name |-> IF ProfileName(author) # "" THEN ProfileName(author) ELSE author,
     technologies |-> technologies]

(* The entry pushed in the catch block: username and technologies only *)
PersonEntryOnError(author) ==
    [username |-> author, hasName |-> FALSE, name |-> "", technologies |-> <<>>]

(* The second profile lookup of the author loop and the push on people *)
NiceName ==
    /\ UNCHANGED pureVars
    /\ pc = "n_name"
    /\ LET author == Head(uniqueAuthors)
       IN  \E failed \in {f \in BOOLEAN : f => author \in KnownUsers} :
             /\ Fault(failed)
             /\ reqs' = Append(reqs, Req("getByUsername", newRepo.name, author, 0,
                                         failed \/ author \notin KnownUsers, 0))
             /\ newRepo' = [newRepo EXCEPT !.people =
                               Append(@, IF failed \/ author \notin KnownUsers
                                         THEN PersonEntryOnError(author)
                                         ELSE PersonEntry(author, techList))]
    /\ uniqueAuthors' = Tail(uniqueAuthors)
    /\ techList' = <<>>
    /\ pc' = IF Tail(uniqueAuthors) = <<>> THEN "n_push" ELSE "n_tech"
    /\ UNCHANGED <<store, data, scrapedData, commitQ, techFailed, niceData, ctl, sLoc,
                   eLoc, cfg>>

(* niceData.push(newRepo) *)
NicePush ==
    /\ UNCHANGED pureVars
    /\ pc = "n_push"
    /\ niceData' = Append(niceData, newRepo)
    /\ scrapedData' = Tail(scrapedData)
    /\ pc' = IF Tail(scrapedData) = <<>> THEN "n_update" ELSE "n_repo"
    /\ UNCHANGED <<store, faults, data, newRepo, commitQ, uniqueAuthors, techList,
                   techFailed, reqs, ctl, sLoc, eLoc, cfg>>

(* update({ nice_data: niceData }).eq('id', id) *)
NiceUpdate ==
    /\ UNCHANGED pureVars
    /\ pc = "n_update"
    /\ \E failed \in BOOLEAN :
         /\ Fault(failed)
         /\ reqs' = Append(reqs, StoreReq("update", failed))
         /\ store' = IF failed THEN store
                     ELSE UpdateRow(store, argId, "nice_data", JsonArray(niceData))
         /\ EndStage("nice", "completed", "", TRUE, ~failed, FALSE)
    /\ NiceLocalsReset
    /\ UNCHANGED <<before, started, sLoc, eLoc, cfg>>

-----------------------------------------------------------------------------
(* The pipeline run by the orchestrator *)

PipeNext ==
    \/ OrchStart
    \/ ScrapeStart \/ ScrapeListForOrg \/ ScrapeListContributors \/ ScrapeProfile
    \/ ScrapeListCommits \/ ScrapeGetCommit \/ ScrapeMetrics \/ ScrapeUpdate
    \/ EmailStart \/ EmailGenerate \/ EmailUpdate
    \/ NiceStart \/ NiceRepo \/ NiceCommit \/ NiceTech \/ NiceName \/ NicePush
    \/ NiceUpdate

Next == PipeNext

Spec == Init /\ [][Next]_vars

(* The same program with its scheduling: execSync returns once the stage   *)
(* process has exited and every awaited call of a script settles, so a     *)
(* step that can be taken is taken                                         *)
SpecLive == Init /\ [][Next]_vars /\ WF_vars(Next)

-----------------------------------------------------------------------------
(* The stage scripts started from the shell: one command, then possibly a  *)
(* later one for another company                                           *)

InitDirect ==
    /\ PipeInit
    /\ env \in EnvChoices
    /\ invoker = "shell"
    /\ variant = "js"
    /\ orchPc = "first"
    /\ SelIdle /\ DigIdle

NextDirect ==
    \/ DirectStart
    \/ ScrapeStart \/ ScrapeListForOrg \/ ScrapeListContributors \/ ScrapeProfile
    \/ ScrapeListCommits \/ ScrapeGetCommit \/ ScrapeMetrics \/ ScrapeUpdate
    \/ EmailStart \/ EmailGenerate \/ EmailUpdate
    \/ NiceStart \/ NiceRepo \/ NiceCommit \/ NiceTech \/ NiceName \/ NicePush
    \/ NiceUpdate

SpecDirect == InitDirect /\ [][NextDirect]_vars

-----------------------------------------------------------------------------
(* scrape.ts, the older fetch script, started from the shell with or       *)
(* without an argument                                                     *)

InitTs ==
    /\ PipeInit
    /\ store[2].scraped_data = JsonNull
    /\ env \in EnvChoices
    /\ invoker = "shell"
    /\ variant = "ts"
    /\ orchPc = "first"
    /\ SelIdle /\ DigIdle

(* ts-node scrape.ts <companyId> *)
TsStart ==
    /\ UNCHANGED pureVars
    /\ invoker = "shell"
    /\ variant = "ts"
    /\ pc = "off"
    /\ orchPc = "first"
    /\ \E id \in ArgIds \cup {NoArg} : argId' = id
    /\ orchPc' = "scrape"
    /\ later' = TRUE
    /\ UNCHANGED <<store, pc, faults, data, sLoc, eLoc, nLoc, before, finished, outcome,
                   started, reqs, orchExit, env, invoker, variant>>

NextTs ==
    \/ TsStart
    \/ ScrapeStart \/ ScrapeListForOrg \/ ScrapeListContributors
    \/ ScrapeListCommits \/ ScrapeGetCommit \/ ScrapeMetrics \/ ScrapeUpdate

SpecTs == InitTs /\ [][NextTs]_vars

-----------------------------------------------------------------------------
(* The Repository Selector on its own: any listing of up to MaxSelLen      *)
(* repositories, named by their place in the listing, and either sample    *)
(* size of the two scripts                                                 *)

StarChoices == {5, 10, 50}

Listing(stars) ==
    [i \in 1..Len(stars) |->
        [name |-> RepoName(i), html_url |-> RepoName(i), stargazers_count |-> stars[i]]]

SelInputs ==
    UNION {{Listing(stars) : stars \in [1..n -> StarChoices]} : n \in 0..MaxSelLen}

InitSel ==
    /\ PipeIdle
    /\ DigIdle
    /\ selIn \in SelInputs
    /\ selN \in {SampleSize, AltSampleSize}
    /\ selOut = [done |-> FALSE, repos |-> <<>>]

SelectorRun ==
    /\ ~selOut.done
    /\ selOut' = [done |-> TRUE, repos |-> SelectTopRepos(selIn, selN)]
    /\ UNCHANGED <<selIn, selN, digVars, pipeVars>>

NextSel == SelectorRun

SpecSel == InitSel /\ [][NextSel]_vars

-----------------------------------------------------------------------------
(* The Digest Summarizer on its own: a scraped_data column that is null,   *)
(* not an array, or up to MaxDigRepos repositories as scrape.js or         *)
(* scrape.ts stores them, each with the first commits of the fixture       *)

DigStarChoices == {5, 50}

StoredRepo(i, stars, flavor, k) ==
    LET repo == [name |-> RepoName(i), html_url |-> RepoName(i), stargazers_count |-> stars]
    IN  IF flavor = "js"
        THEN RepoData(repo, <<>>, [j \in 1..k |-> CommitRecord(CommitDetail(j))])
        ELSE RepoDataTs(repo, <<>>, [j \in 1..k |-> CommitRecordTs(CommitDetail(j))])

RepoShapes == DigStarChoices \X {"js", "ts"} \X (0..MaxDigCommits)

StoredRepos ==
    [i \in 1..MaxDigRepos |->
        [shape \in RepoShapes |-> StoredRepo(i, shape[1], shape[2], shape[3])]]

DigInputs(n) ==
    {JsonArray([i \in 1..n |-> StoredRepos[i][shape[i]]]) : shape \in [1..n -> RepoShapes]}

InitDig ==
    /\ PipeIdle
    /\ SelIdle
    /\ \/ digIn \in {JsonNull, JsonOther}
       \/ \E n \in 0..MaxDigRepos : digIn \in DigInputs(n)
    /\ digOut = [done |-> FALSE, email |-> NoDigest, scrape |-> NoDigest]

DigestRun ==
    /\ ~digOut.done
    /\ digOut' = [done |-> TRUE,
                  email |-> SummarizeScrapedData(digIn),
                  scrape |-> SummarizeScrapedDataScrape(digIn)]
    /\ UNCHANGED <<digIn, selVars, pipeVars>>

NextDig == DigestRun

SpecDig == InitDig /\ [][NextDig]_vars


-----------------------------------------------------------------------------
(* Properties *)

(* Stage s has ended and no later stage has started *)
JustEnded(s) == pc = "off" /\ finished = s

StoredNice(id) == store[id].nice_data

IsEmptyInput(scraped) == scraped.kind # "array" \/ scraped.items = <<>>

DetailHasStats(sha) == CommitDetail(sha).stats.present

RECURSIVE SumDetail(_, _)
SumDetail(shas, field) ==
    IF shas = <<>> THEN 0
    ELSE (IF field = "additions" THEN CommitDetail(Head(shas)).stats.additions
          ELSE CommitDetail(Head(shas)).stats.deletions) + SumDetail(Tail(shas), field)

(* The average the claim describes: over the first 3 fetched commits, only *)
(* those whose fetched detail has stats count                              *)
ClaimedAverage(shas, field) ==
    LET qualifying == SelectSeq(Take(shas, 3), DetailHasStats)
    IN  IF qualifying = <<>> THEN 0
        ELSE MathRound(SumDetail(qualifying, field), Len(qualifying))

(* C1: when the fetch stage has pushed a repository, its averageAdditions  *)
(* and averageDeletions are the averages over those of its first 3         *)
(* aggregated commits whose fetched detail carries stats; a commit without *)
(* stats adds nothing to the sums or the count.                            *)
C1_StatlessCommitsExcluded ==
    (pc = "s_update" /\ results # <<>>) =>
        /\ results[Len(results)].averageAdditions = Number(ClaimedAverage(fetched, "additions"))
        /\ results[Len(results)].averageDeletions = Number(ClaimedAverage(fetched, "deletions"))

(* C2, as stated: a transient failure of the repository listing does not   *)
(* abort the fetch stage, which completes and issues its update.           *)
C2_ListingFailureContinues ==
    (JustEnded("scrape") /\ outcome["scrape"].cause = "listing") =>
        /\ outcome["scrape"].status = "completed"
        /\ outcome["scrape"].updateIssued

(* C2, amended: a transient failure of the repository listing aborts the   *)
(* fetch stage: no update is issued and the store is as it was.            *)
C2_ListingFailureAborts ==
    (JustEnded("scrape") /\ outcome["scrape"].cause = "listing") =>
        /\ outcome["scrape"].status = "aborted"
        /\ ~outcome["scrape"].updateIssued
        /\ store = before

C2_Witness ==
    /\ JustEnded("scrape")
    /\ outcome["scrape"].cause = "listing"
    /\ argId = 1

(* C3, as stated: a failure of the text-completion call does not abort the *)
(* narrative stage, which still issues its update of the email field.      *)
C3_GenerationFailureContinues ==
    (JustEnded("email") /\ outcome["email"].cause = "generation") =>
        /\ outcome["email"].status = "completed"
        /\ outcome["email"].updateIssued

(* C3, amended: a failure of the text-completion call aborts the narrative *)
(* stage after the prompt was submitted: no update is issued, no sentinel  *)
(* is stored and the store is as it was.                                   *)
C3_GenerationFailureAborts ==
    (JustEnded("email") /\ outcome["email"].cause = "generation") =>
        /\ outcome["email"].status = "aborted"
        /\ outcome["email"].promptSubmitted
        /\ ~outcome["email"].updateIssued
        /\ store = before

C3_Witness ==
    /\ JustEnded("email")
    /\ outcome["email"].cause = "generation"
    /\ before[argId].scraped_data.kind = "array"

(* C4: the digest handed to text generation has the average line exactly   *)
(* when one of the included commits (the first 3 of the top repository)    *)
(* carries stats, and its figures are the averages over those commits.     *)
C4_AverageLineIffStats ==
    (pc = "e_update" /\ ~IsEmptyInput(data.scraped_data)) =>
        LET topRepo == SortByStars(data.scraped_data.items)[1]
            withStats == SelectSeq(Take(topRepo.commits, 3), HasStats)
        IN  /\ dataSummary.hasAverage <=> withStats # <<>>
            /\ dataSummary.hasAverage =>
                  /\ dataSummary.avgAdditions =
                        MathRound(SumAdditions(withStats), Len(withStats))
                  /\ dataSummary.avgDeletions =
                        MathRound(SumDeletions(withStats), Len(withStats))

(* C5: every entry of a people sequence stored in nice_data has a display  *)
(* name, and the name is the username when the profile has no name.        *)
C5_PeopleHaveNames ==
    \A id \in DOMAIN store :
        \A i \in 1..Len(StoredNice(id).items) :
            \A j \in 1..Len(StoredNice(id).items[i].people) :
                LET person == StoredNice(id).items[i].people[j]
                IN  /\ person.hasName
                    /\ ProfileName(person.username) = "" => person.name = person.username

Usernames(people) == [i \in 1..Len(people) |-> people[i].username]

OnePerAuthor(repo) ==
    /\ Range(Usernames(repo.people)) = Range(CommitAuthors(repo.commits))
    /\ Len(repo.people) = Cardinality(Range(CommitAuthors(repo.commits)))

(* C6: an enriched repository has exactly one people entry for each        *)
(* distinct author of its commits, whatever lookups failed; an author      *)
(* whose technology chain failed has an empty technology list; and the     *)
(* stage, once it has read an array of scraped data, completes and issues  *)
(* its update.                                                             *)
C6_OnePersonPerAuthor ==
    /\ \A id \in DOMAIN store :
          \A i \in 1..Len(StoredNice(id).items) : OnePerAuthor(StoredNice(id).items[i])
    /\ pc = "n_push" =>
          /\ OnePerAuthor(newRepo)
          /\ Len(newRepo.commits) = Len(Head(scrapedData).commits)
          /\ \A j \in 1..Len(newRepo.people) :
                newRepo.people[j].username \in techFailed =>
                    newRepo.people[j].technologies = <<>>
    /\ (JustEnded("nice") /\ outcome["nice"].cause \notin {"read", "noScrapedData"}) =>
          /\ outcome["nice"].status = "completed"
          /\ outcome["nice"].updateIssued

C6_Witness ==
    \E id \in DOMAIN store :
        /\ StoredNice(id).kind = "array"
        /\ Len(StoredNice(id).items) = 1
        /\ CommitAuthors(StoredNice(id).items[1].commits) = <<"a", "b", "a", "c">>
        /\ Len(StoredNice(id).items[1].people) = 3
        /\ \E j \in 1..3 :
              /\ StoredNice(id).items[1].people[j].username = "a"
              /\ StoredNice(id).items[1].people[j].technologies = <<>>


(* The place a repository of the listing takes among all of them: after   *)
(* every repository with more stars and every earlier one with as many     *)
SelRank(j) ==
    1 + Cardinality({k \in 1..Len(selIn) :
            \/ selIn[k].stargazers_count > selIn[j].stargazers_count
            \/ /\ selIn[k].stargazers_count = selIn[j].stargazers_count
               /\ k < j})

(* C7: the selector yields at most N repositories, in non-increasing star  *)
(* order: the N highest-starred of the listing, equal star counts in the   *)
(* listing's order.                                                        *)
C7_SelectorTopN ==
    selOut.done =>
        /\ Len(selOut.repos) <= selN
        /\ Len(selOut.repos) = Min(selN, Len(selIn))
        /\ \A i \in 1..(Len(selOut.repos) - 1) :
              selOut.repos[i].stargazers_count >= selOut.repos[i + 1].stargazers_count
        /\ \A i \in 1..Len(selOut.repos) :
              \E j \in 1..Len(selIn) : SelRank(j) = i /\ selOut.repos[i] = selIn[j]

C7_Witness ==
    /\ selOut.done
    /\ selN = 1
    /\ Len(selIn) = 3
    /\ selIn[1].stargazers_count = 10
    /\ selIn[2].stargazers_count = 50
    /\ selIn[3].stargazers_count = 5
    /\ selOut.repos = <<selIn[2]>>

(* What the claim says of one digest for a non-empty input: it describes a *)
(* repository of the input with the greatest star count and the first      *)
(* min(3, n) of its commits, numbered from 1 in their order, each with the *)
(* first 200 characters of its diff, newlines turned into spaces           *)
DescribesTopRepo(digest, repos) ==
    \E i \in 1..Len(repos) :
        /\ digest.name = repos[i].name
        /\ digest.stars = repos[i].stars
        /\ digest.link = repos[i].link
        /\ \A j \in 1..Len(repos) : repos[j].stars <= repos[i].stars
        /\ Len(digest.commits) = Min(3, Len(repos[i].commits))
        /\ \A c \in 1..Len(digest.commits) :
              LET diff == repos[i].commits[c].diff
                  excerpt == digest.commits[c].excerpt
              IN  /\ digest.commits[c].index = c
                  /\ digest.commits[c].author = repos[i].commits[c].author
                  /\ Len(excerpt) = Min(200, Len(diff))
                  /\ \A h \in 1..Len(excerpt) :
                        excerpt[h] = IF diff[h] = "\n" THEN " " ELSE diff[h]

(* C8: for a non-empty repository sequence both summarizers describe one   *)
(* repository, one with the maximum star count, and exactly its first      *)
(* min(3, n) commits in order with their excerpts.                         *)
C8_DigestTopRepoCommits ==
    (digOut.done /\ ~IsEmptyInput(digIn)) =>
        /\ digOut.email.text # NoRepositoryData
        /\ DescribesTopRepo(digOut.email, digIn.items)
        /\ DescribesTopRepo(digOut.scrape, digIn.items)

C8_Witness ==
    /\ digOut.done
    /\ digIn.kind = "array"
    /\ Len(digIn.items) = 2
    /\ digIn.items[1].stars < digIn.items[2].stars
    /\ Len(digIn.items[2].commits) = 5
    /\ digOut.email.name = digIn.items[2].name
    /\ Len(digOut.email.commits) = 3
    /\ Len(digIn.items[2].commits[1].diff) > 200
    /\ Len(digOut.email.commits[1].excerpt) = 200
    /\ \E h \in 1..200 : digIn.items[2].commits[1].diff[h] = "\n"

(* C9: for a scraped_data that is empty, null or no array the digest is    *)
(* the sentinel, and the narrative stage goes on with it: the prompt is    *)
(* submitted and, unless a call fails, the email field is updated.         *)
C9_SentinelIsOrdinaryInput ==
    /\ (pc = "e_update" /\ IsEmptyInput(data.scraped_data)) =>
          /\ dataSummary = SentinelDigest
          /\ dataSummary.text = "No repository data available."
    /\ (JustEnded("email") /\ outcome["email"].cause # "read"
           /\ IsEmptyInput(before[argId].scraped_data)) =>
          /\ dataSummary.text = "No repository data available."
          /\ outcome["email"].promptSubmitted
          /\ faults = 0 =>
                /\ outcome["email"].status = "completed"
                /\ outcome["email"].updateOk
                /\ ~store[argId].email.isNull
                /\ store[argId].email = email

C9_Witness ==
    /\ JustEnded("email")
    /\ outcome["email"].updateOk
    /\ before[argId].scraped_data.kind = "other"
    /\ dataSummary = SentinelDigest
    /\ ~store[argId].email.isNull

(* C10: a stage that cannot read the company record, and the fetch stage   *)
(* when the organization does not exist upstream, aborts without issuing   *)
(* an update: every record is as it was when the stage started.            *)
C10_AbortLeavesStore ==
    \A s \in Stages :
        (JustEnded(s) /\ outcome[s].cause \in {"read", "orgNotFound"}) =>
            /\ outcome[s].status = "aborted"
            /\ ~outcome[s].updateIssued
            /\ store = before
            /\ \A id \in DOMAIN store :
                  /\ store[id].scraped_data = before[id].scraped_data
                  /\ store[id].nice_data = before[id].nice_data
                  /\ store[id].email = before[id].email

C10_Witness ==
    /\ JustEnded("nice")
    /\ outcome["nice"].cause = "read"
    /\ outcome["scrape"].cause = "orgNotFound"
    /\ ~store[argId].email.isNull

-----------------------------------------------------------------------------
(* Properties of the orchestrator, the configuration checks and the frame *)

StageOrder == <<"scrape", "email", "nice">>

StartedStages == [i \in 1..Len(started) |-> started[i].stage]

(* The stage process started last, and its argument *)
LastStage == started[Len(started)].stage

LastArg == started[Len(started)].id

(* The stage started last has ended and nothing was started since *)
LastEnded == started # <<>> /\ pc = "off" /\ finished = LastStage

(* C11: run.js starts the stages in the order fetch, narrative, enrich,    *)
(* each at most once and all for its one identifier; a stage is started    *)
(* only after the one before it has exited with status zero; once a stage  *)
(* has exited with a non-zero status nothing more is started and run.js    *)
(* has itself exited with a non-zero status.                               *)
C11_OrchestratorSequence ==
    /\ StartedStages = SubSeq(StageOrder, 1, Min(Len(started), Len(StageOrder)))
    /\ \A i \in 1..Len(started) : started[i].id = argId
    /\ \A i \in 2..Len(started) :
          /\ outcome[started[i - 1].stage].status # "notrun"
          /\ outcome[started[i - 1].stage].exitCode = 0
    /\ \A s \in Stages :
          outcome[s].exitCode # 0 =>
              /\ LastStage = s
              /\ pc = "off"
              /\ orchPc = "failed"
              /\ orchExit > 0
    /\ orchExit = 0 => StartedStages = StageOrder /\ pc = "off"

C11_Witness ==
    /\ StartedStages = <<"scrape">>
    /\ outcome["scrape"].exitCode # 0
    /\ orchExit = 1
    /\ orchPc = "failed"

(* C12: a stage script started without an argument, or with one of the     *)
(* Supabase URL, the Supabase key and the OpenAI key unset, has exited     *)
(* with a non-zero status without any request to the record store, GitHub  *)
(* or the completion service.                                              *)
C12_ConfigurationExit ==
    (LastEnded /\ (LastArg = NoArg
                   \/ ~({"SUPABASE_URL", "SUPABASE_KEY", "OPENAI_API_KEY"} \subseteq env))) =>
        /\ outcome[LastStage].exitCode # 0
        /\ reqs = <<>>
        /\ store = before

C12_Witness ==
    /\ LastEnded
    /\ LastStage = "nice"
    /\ LastArg = 5
    /\ "OPENAI_API_KEY" \notin env
    /\ outcome["nice"].exitCode = 1
    /\ reqs = <<>>

(* The column a stage writes *)
OwnField(s) ==
    CASE s = "scrape" -> "scraped_data"
      [] s = "email" -> "email"
      [] OTHER -> "nice_data"

(* C13: while and after a stage runs for company X, the rows of the other  *)
(* companies are as they were when it started and row X differs at most in *)
(* the stage's own column; and a stage run without failures of its own for *)
(* another company Y, after a run for X, works on the data row Y held from *)
(* the start: the narrative stage stores an email made from the digest of  *)
(* that data, the enrich stage stores one enriched repository for each     *)
(* repository of that data.                                                *)
C13_FrameByCompany ==
    started # <<>> =>
        /\ \A id \in DOMAIN store :
              /\ id # LastArg => store[id] = before[id]
              /\ \A f \in {"website", "scraped_data", "email", "nice_data"} \ {OwnField(LastStage)} :
                    store[id][f] = before[id][f]
        /\ (Len(started) = 2 /\ LastEnded /\ faults = 0 /\ LastArg \in DOMAIN store
            /\ outcome[LastStage].exitCode = 0) =>
              \E seed \in SeedStores :
                  LET y == LastArg IN
                  /\ before[y] = seed[y]
                  /\ LastStage = "email" =>
                        /\ outcome["email"].updateOk
                        /\ dataSummary = SummarizeScrapedData(seed[y].scraped_data)
                        /\ store[y].email = email
                        /\ ~email.isNull
                  /\ (LastStage = "nice" /\ seed[y].scraped_data.kind = "array") =>
                        /\ outcome["nice"].updateOk
                        /\ store[y].nice_data.kind = "array"
                        /\ Len(store[y].nice_data.items) = Len(seed[y].scraped_data.items)

C13_Witness ==
    /\ Len(started) = 2
    /\ started[1] = [stage |-> "scrape", id |-> 1]
    /\ outcome["scrape"].cause = "listing"
    /\ started[2] = [stage |-> "nice", id |-> 5]
    /\ LastEnded
    /\ outcome["nice"].updateOk
    /\ store[5].nice_data.kind = "array"
    /\ Len(store[5].nice_data.items) = 1

-----------------------------------------------------------------------------
(* Properties of the fetch stage *)

(* r is the integer nearest to total / count, halves going up *)
IsNearestInteger(r, total, count) ==
    /\ 2 * count * r - count <= 2 * total
    /\ 2 * total < 2 * count * r + count

(* The requests of the log that satisfy Test *)
ReqsWhere(Test(_)) == SelectSeq(reqs, Test)

(* The repositories the fetch stage that ended last has stored *)
StoredItems == store[LastArg].scraped_data.items

FetchStored ==
    /\ LastEnded
    /\ LastStage = "scrape"
    /\ outcome["scrape"].updateOk

(* C14: a repository stored by the fetch stage with no commit carrying     *)
(* stats among its first 3 has both averages 0; otherwise each average is  *)
(* the integer nearest to the sum over those commits divided by their      *)
(* number.                                                                 *)
C14_ZeroSafeAverages ==
    FetchStored =>
        \A i \in 1..Len(StoredItems) :
            LET repo == StoredItems[i]
                qualifying == SelectSeq(Take(repo.commits, 3), HasStats)
            IN  /\ repo.averageAdditions.defined
                /\ repo.averageDeletions.defined
                /\ qualifying = <<>> =>
                      /\ repo.averageAdditions.value = 0
                      /\ repo.averageDeletions.value = 0
                /\ qualifying # <<>> =>
                      /\ IsNearestInteger(repo.averageAdditions.value,
                                          SumAdditions(qualifying), Len(qualifying))
                      /\ IsNearestInteger(repo.averageDeletions.value,
                                          SumDeletions(qualifying), Len(qualifying))

C14_Witness ==
    /\ FetchStored
    /\ Len(StoredItems) = 1
    /\ \E i \in 1..Len(reqs) : reqs[i].op = "listCommits" /\ reqs[i].failed
    /\ StoredItems[1].commits = <<>>
    /\ StoredItems[1].averageAdditions = Number(0)
    /\ StoredItems[1].averageDeletions = Number(0)

(* The first non-empty part of a path, "" when there is none *)
RECURSIVE FirstNonEmpty(_)
FirstNonEmpty(path) ==
    IF path = <<>> THEN ""
    ELSE IF Head(path) # "" THEN Head(path)
    ELSE FirstNonEmpty(Tail(path))

IsStoreReq(r) == r.op \in {"select", "update"}

(* C15: once the fetch stage has parsed the website of its row, the        *)
(* organization is the first non-empty part of the URL's path, whatever    *)
(* empty parts (a trailing slash, two slashes in a row) the path has; when *)
(* the website is no URL or its path has no non-empty part, the stage ends *)
(* at this step: its only request was the read of the row, no update is    *)
(* issued and the store is as it was.                                      *)
C15_OrganizationResolver ==
    /\ pc = "s_listForOrg" =>
          /\ orgName = FirstNonEmpty(store[argId].website.path)
          /\ orgName # ""
    /\ (LastEnded /\ LastStage = "scrape" /\ Len(reqs) >= 1 /\ ~reqs[1].failed
        /\ (~before[LastArg].website.parsable
            \/ FirstNonEmpty(before[LastArg].website.path) = "")) =>
          /\ outcome["scrape"].status = "aborted"
          /\ outcome["scrape"].cause = "url"
          /\ ~outcome["scrape"].updateIssued
          /\ reqs = <<StoreReq("select", FALSE)>>
          /\ store = before

C15_Witness ==
    /\ pc = "s_listForOrg"
    /\ argId = 5
    /\ store[5].website.path = <<"", "", "ghost", "x">>
    /\ orgName = "ghost"

(* Whether the detail fetch of a listed commit failed, by the log *)
DetailFailed(repo, sha) ==
    \E i \in 1..Len(reqs) :
        /\ reqs[i].op = "getCommit"
        /\ reqs[i].repo = repo
        /\ reqs[i].sha = sha
        /\ reqs[i].failed

(* The number of commits the listing of a repository returned (0 when it   *)
(* failed or was never asked)                                              *)
ListedCommits(repo) ==
    IF \E i \in 1..Len(reqs) : reqs[i].op = "listCommits" /\ reqs[i].repo = repo
    THEN reqs[CHOOSE i \in 1..Len(reqs) :
                  reqs[i].op = "listCommits" /\ reqs[i].repo = repo].n
    ELSE 0

CommitListingFailed(repo) ==
    \E i \in 1..Len(reqs) :
        reqs[i].op = "listCommits" /\ reqs[i].repo = repo /\ reqs[i].failed

RECURSIVE FetchedShas(_, _, _)
FetchedShas(repo, sha, last) ==
    IF sha > last THEN <<>>
    ELSE (IF DetailFailed(repo, sha) THEN <<>> ELSE <<sha>>)
         \o FetchedShas(repo, sha + 1, last)

(* C16: the commits the fetch stage has stored for a repository are the    *)
(* records of the listed commits whose detail fetch did not fail, in the   *)
(* order of the listing; and a stage in which a detail fetch failed still  *)
(* completes and issues its update.                                        *)
C16_CommitSubsequence ==
    /\ FetchStored =>
          \A i \in 1..Len(StoredItems) :
              LET repo == StoredItems[i]
                  shas == FetchedShas(repo.name, 1, ListedCommits(repo.name))
              IN  repo.commits = [j \in 1..Len(shas) |-> CommitRecord(CommitDetail(shas[j]))]
    /\ (LastEnded /\ LastStage = "scrape"
        /\ \E i \in 1..Len(reqs) : reqs[i].op = "getCommit" /\ reqs[i].failed) =>
          /\ outcome["scrape"].status = "completed"
          /\ outcome["scrape"].updateIssued

C16_Witness ==
    /\ FetchStored
    /\ Len(StoredItems) = 1
    /\ ListedCommits(StoredItems[1].name) = 4
    /\ DetailFailed(StoredItems[1].name, 2)
    /\ Len(StoredItems[1].commits) = 3
    /\ StoredItems[1].commits[2] = CommitRecord(CommitDetail(3))

(* The repositories the listing returned, by the log *)
ListedRepos ==
    IF \E i \in 1..Len(reqs) : reqs[i].op = "listForOrg" /\ ~reqs[i].failed
    THEN reqs[CHOOSE i \in 1..Len(reqs) : reqs[i].op = "listForOrg" /\ ~reqs[i].failed].n
    ELSE 0

(* C17: scrape.ts, which selects up to 4 repositories: when the commit     *)
(* listing of a selected repository fails the stage still completes and    *)
(* stores every selected repository, in the order of the selection, each   *)
(* with its name, link and stars; the commit listing of every one of them  *)
(* was asked for, and the one whose listing failed has no commits.         *)
C17_CommitListingFailure ==
    /\ (LastEnded /\ LastStage = "scrape"
        /\ \E i \in 1..Len(reqs) : reqs[i].op = "listCommits" /\ reqs[i].failed) =>
          /\ outcome["scrape"].status = "completed"
          /\ outcome["scrape"].updateIssued
    /\ FetchStored =>
          LET selected == SelectTopRepos([i \in 1..ListedRepos |-> UpstreamRepo(i)],
                                         AltSampleSize)
          IN  /\ Len(StoredItems) = Len(selected)
              /\ \A i \in 1..Len(selected) :
                    /\ StoredItems[i].name = selected[i].name
                    /\ StoredItems[i].link = selected[i].html_url
                    /\ StoredItems[i].stars = selected[i].stargazers_count
                    /\ \E k \in 1..Len(reqs) :
                          reqs[k].op = "listCommits" /\ reqs[k].repo = selected[i].name
                    /\ CommitListingFailed(selected[i].name) =>
                          StoredItems[i].commits = <<>>

C17_Witness ==
    /\ FetchStored
    /\ variant = "ts"
    /\ Len(StoredItems) = 2
    /\ CommitListingFailed(StoredItems[1].name)
    /\ StoredItems[1].commits = <<>>
    /\ StoredItems[2].commits # <<>>

(* Whether the profile lookup of a contributor failed, by the log *)
ProfileFailed(repo, login) ==
    \E i \in 1..Len(reqs) :
        /\ reqs[i].op = "getByUsername"
        /\ reqs[i].repo = repo
        /\ reqs[i].login = login
        /\ reqs[i].failed

ContributorsListed(repo) ==
    \E i \in 1..Len(reqs) :
        reqs[i].op = "listContributors" /\ reqs[i].repo = repo /\ ~reqs[i].failed

(* The place in the log of the profile lookup of a contributor *)
SettledAt(login) ==
    CHOOSE i \in 1..Len(reqs) : reqs[i].op = "getByUsername" /\ reqs[i].login = login

(* C18: the contributor names scrape.js stores for a repository whose      *)
(* contributor listing succeeded are one for each listed contributor, in   *)
(* the order of the listing, in whatever order the profile lookups have    *)
(* settled: the profile's name, or the login when the lookup failed or the *)
(* profile has no name.                                                    *)
C18_ContributorsInListingOrder ==
    FetchStored =>
        \A i \in 1..Len(StoredItems) :
            LET repo == StoredItems[i] IN
            ContributorsListed(repo.name) =>
                /\ Len(repo.top50contributors) = Len(ContributorLogins)
                /\ \A j \in 1..Len(ContributorLogins) :
                      LET login == ContributorLogins[j] IN
                      repo.top50contributors[j] =
                          IF ProfileFailed(repo.name, login) \/ ProfileName(login) = ""
                          THEN login
                          ELSE ProfileName(login)

C18_Witness ==
    /\ FetchStored
    /\ Len(StoredItems) = 1
    /\ ContributorsListed(StoredItems[1].name)
    /\ ProfileFailed(StoredItems[1].name, "a")
    /\ SettledAt("b") < SettledAt("a")
    /\ StoredItems[1].top50contributors = <<"a", "b">>

-----------------------------------------------------------------------------
(* Properties of the enrich stage *)

SummaryFailed(op, repo, position) ==
    \E i \in 1..Len(reqs) :
        /\ reqs[i].op = op
        /\ reqs[i].repo = repo
        /\ reqs[i].sha = position
        /\ reqs[i].failed

EnrichStored ==
    /\ LastEnded
    /\ LastStage = "nice"
    /\ outcome["nice"].updateOk

(* C19: the enrich stage stores, for every stored repository, one commit   *)
(* entry for each stored commit, in the stored order, with the commit's    *)
(* message, author and stats; a summary whose completion call failed is    *)
(* its sentinel ("Summary not available." for the diff, "No summary        *)
(* available." for the message); and a stage in which such a call failed   *)
(* still completes and issues its update.                                  *)
C19_SummaryFailureDegrades ==
    /\ EnrichStored =>
          LET scraped == store[LastArg].scraped_data.items
              nice == store[LastArg].nice_data.items
          IN  /\ Len(nice) = Len(scraped)
              /\ \A i \in 1..Len(scraped) :
                    /\ nice[i].name = scraped[i].name
                    /\ Len(nice[i].commits) = Len(scraped[i].commits)
                    /\ \A j \in 1..Len(scraped[i].commits) :
                          LET old == scraped[i].commits[j]
                              new == nice[i].commits[j]
                          IN  /\ new.message = old.message
                              /\ new.author = old.author
                              /\ new.stats = old.stats
                              /\ SummaryFailed("summarizeDiff", scraped[i].name, j) =>
                                    new.summary = "Summary not available."
                              /\ SummaryFailed("summarizeMessage", scraped[i].name, j) =>
                                    new.messageSummary = "No summary available."
    /\ (LastEnded /\ LastStage = "nice"
        /\ \E i \in 1..Len(reqs) :
              reqs[i].op \in {"summarizeDiff", "summarizeMessage"} /\ reqs[i].failed) =>
          /\ outcome["nice"].status = "completed"
          /\ outcome["nice"].updateIssued

C19_Witness ==
    /\ EnrichStored
    /\ LastArg = 5
    /\ SummaryFailed("summarizeDiff", store[5].scraped_data.items[1].name, 1)
    /\ store[5].nice_data.items[1].commits[1].summary = "Summary not available."
    /\ store[5].nice_data.items[1].commits[2].summary # "Summary not available."

SameRequest(r, q) ==
    /\ r.op = q.op
    /\ r.repo = q.repo
    /\ r.login = q.login
    /\ r.sha = q.sha

(* How many times the request r is in the log *)
TimesIssued(r) == Cardinality({i \in 1..Len(reqs) : SameRequest(reqs[i], r)})

-----------------------------------------------------------------------------
(* Properties of a stage that aborts after startup *)

(* The stages that have a following stage *)
EarlyStages == {"scrape", "email"}

(* The run of stage s ended on a failure after startup: the row was not    *)
(* readable, the website did not parse, the listing or the generation      *)
(* failed, or the update failed                                            *)
AbortedAfterStartup(s) ==
    /\ outcome[s].status # "notrun"
    /\ outcome[s] # Exited
    /\ \/ outcome[s].status = "aborted"
       \/ outcome[s].updateIssued /\ ~outcome[s].updateOk

(* Stage s has just ended that way and nothing was started since *)
AbortJustEnded(s) == LastEnded /\ LastStage = s /\ AbortedAfterStartup(s)

(* The stage after s has been started for the orchestrator's identifier *)
FollowerStarted(s) ==
    \E i \in 1..Len(started) :
        started[i] = [stage |-> NextOrch(s), id |-> argId]

(* The step of run.js that starts the stage after s *)
FollowerStart(s) == IF s = "scrape" THEN EmailStart ELSE NiceStart

C21_State ==
    \A s \in EarlyStages :
        /\ AbortedAfterStartup(s) =>
              /\ outcome[s].exitCode = 0
              /\ orchPc # "failed"
              /\ orchExit # 1
        /\ AbortJustEnded(s) =>
              /\ orchPc = NextOrch(s)
              /\ store = before
              /\ ENABLED FollowerStart(s)
        /\ (AbortedAfterStartup(s) /\ pc # "off" /\ LastStage = NextOrch(s)
              /\ data # NoRow) =>
              data.scraped_data = before[argId].scraped_data

C21_Step ==
    \A s \in EarlyStages :
        AbortJustEnded(s) =>
            /\ started' = Append(started, [stage |-> NextOrch(s), id |-> argId])
            /\ argId' = argId
            /\ before' = store

(* C21: a fetch or narrative stage that aborts after startup (row not      *)
(* readable, website not parsable, listing failure, generation failure,    *)
(* failed update) ends with exit status zero and leaves the store as it    *)
(* was; run.js does not stop on it: the start of the following stage is    *)
(* its one possible next step, for the same identifier and on the          *)
(* scraped_data stored before.                                             *)
C21_AbortExitsZero ==
    /\ []C21_State
    /\ [][C21_Step]_vars

(* Under the scheduling of SpecLive that step is taken: the following      *)
(* stage is eventually started                                             *)
FollowerEventuallyStarted ==
    \A s \in EarlyStages : AbortJustEnded(s) ~> FollowerStarted(s)

C21_Witness ==
    /\ outcome["scrape"].status = "aborted"
    /\ outcome["scrape"].cause \in {"listing", "orgNotFound"}
    /\ outcome["email"].status = "aborted"
    /\ outcome["email"].cause = "generation"
    /\ LastStage = "nice"
    /\ pc # "off"
    /\ data # NoRow
    /\ orchExit = -1

====
